---- MODULE Spec2Model ----
(***************************************************************************)
(* SMTP session engine of ddelivery (src/src/smtp.rs): the line framer     *)
(* CommandIter, the command parser ClientCommand::from_bytes, the address  *)
(* value EmailAddress and the session state machine MailReceiver, checked  *)
(* against the properties of the specification.                            *)
(*                                                                         *)
(* Bytes are naturals 0..255.  A byte string is a sequence of bytes.       *)
(***************************************************************************)
EXTENDS Naturals, Sequences, FiniteSets, TLC

(* ----------------------------- bytes ----------------------------------- *)

CR == 13
LF == 10
SP == 32
DOT == 46
LT == 60
GT == 62
AT == 64

CRLF == <<CR, LF>>
TermLine == <<DOT, CR, LF>>

VerbEHLO == <<69, 72, 76, 79>>
VerbMAIL == <<77, 65, 73, 76>>
VerbRCPT == <<82, 67, 80, 84>>
VerbDATA == <<68, 65, 84, 65>>
VerbQUIT == <<81, 85, 73, 84>>
VerbRSET == <<82, 83, 69, 84>>
VerbVRFY == <<86, 82, 70, 89>>
VerbEXPN == <<69, 88, 80, 78>>
VerbHELP == <<72, 69, 76, 80>>
VerbNOOP == <<78, 79, 79, 80>>
PrefixFROM == <<70, 82, 79, 77, 58>>
PrefixTO == <<84, 79, 58>>

(* slice helpers: s[from..] and s[..to] of Rust, 1-based here *)
Drop(s, n) == IF n >= Len(s) THEN <<>> ELSE SubSeq(s, n + 1, Len(s))
Take(s, n) == IF n >= Len(s) THEN s ELSE SubSeq(s, 1, n)

StartsWith(s, p) == Len(s) >= Len(p) /\ SubSeq(s, 1, Len(p)) = p
EndsWith(s, p) == Len(s) >= Len(p) /\ SubSeq(s, Len(s) - Len(p) + 1, Len(s)) = p
Contains(s, b) == \E i \in 1..Len(s) : s[i] = b

(* index of the first element equal to b, 0 when there is none *)
IndexOf(s, b) ==
    IF Contains(s, b) THEN CHOOSE i \in 1..Len(s) : s[i] = b /\ \A j \in 1..(i - 1) : s[j] # b
    ELSE 0

(* String::from_utf8 succeeds: one-byte and two-byte forms are decoded; the *)
(* model's alphabet holds no lead byte of a longer form, so any other byte  *)
(* >= 128 is malformed.                                                     *)
RECURSIVE IsUtf8(_)
IsUtf8(s) ==
    IF s = <<>> THEN TRUE
    ELSE IF s[1] < 128 THEN IsUtf8(Tail(s))
    ELSE IF s[1] >= 194 /\ s[1] <= 223 /\ Len(s) >= 2 /\ s[2] >= 128 /\ s[2] <= 191
         THEN IsUtf8(Drop(s, 2))
    ELSE FALSE

IsAscii(s) == \A i \in 1..Len(s) : s[i] < 128

ToAsciiUppercase(s) == [i \in 1..Len(s) |-> IF s[i] >= 97 /\ s[i] <= 122 THEN s[i] - 32 ELSE s[i]]

(* ------------------------- EmailAddress -------------------------------- *)

(* EmailAddress::from_bytes: "Ok" or the BadAddressError *)
AddressCheck(source) ==
    IF ~(StartsWith(source, <<LT>>) /\ EndsWith(source, <<GT>>)) THEN "BadFrame"
    ELSE IF ~Contains(source, AT) THEN "AtMissing"
    ELSE IF ~IsUtf8(source) THEN "InvalidUtf8String"
    ELSE "Ok"

(* ------------------------- command parser ------------------------------ *)

Parsed(tag, name, arg, sub) == [tag |-> tag, name |-> name, arg |-> arg, sub |-> sub]
POk(name, arg) == Parsed("Ok", name, arg, "")
PErr(name) == Parsed("Err", name, <<>>, "")

(* bytes.splitn(2, ' ') : element 0 and, when a space exists, element 1 *)
Split0(body) == IF Contains(body, SP) THEN Take(body, IndexOf(body, SP) - 1) ELSE body
HasSplit1(body) == Contains(body, SP)
Split1(body) == Drop(body, IndexOf(body, SP))

(* variant: the whole argument after FROM: is handed to EmailAddress::from_bytes *)
MailFromBytesWhole(params) == Drop(params, 5)

(* params[5..].take_while(|it| it != '>').chain(once('>')) *)
MailFromBytes(params) ==
    LET rest == Drop(params, 5)
        upto == IF Contains(rest, GT) THEN Take(rest, IndexOf(rest, GT) - 1) ELSE rest
    IN  upto \o <<GT>>

ParseHello(body) ==
    IF ~HasSplit1(body) THEN PErr("MissingDomain")
    ELSE IF IsUtf8(Split1(body)) THEN POk("Hello", Split1(body))
    ELSE PErr("InvalidCharacter")

ParseMail(body) ==
    IF ~HasSplit1(body) THEN PErr("MissingDomain")
    ELSE IF ~StartsWith(Split1(body), PrefixFROM) THEN PErr("SyntaxInvalid")
    ELSE LET a == MailFromBytes(Split1(body))
         IN  IF AddressCheck(a) = "Ok" THEN POk("Mail", a)
             ELSE Parsed("Err", "InvalidFrom", <<>>, AddressCheck(a))

ParseRcpt(body) ==
    IF ~HasSplit1(body) THEN PErr("MissingDomain")
    ELSE LET tok == Split0(Split1(body))
         IN  IF ~StartsWith(tok, PrefixTO) THEN PErr("SyntaxInvalid")
             ELSE IF AddressCheck(Drop(tok, 3)) = "Ok" THEN POk("Recipient", Drop(tok, 3))
             ELSE Parsed("Err", "InvalidRecipient", <<>>, AddressCheck(Drop(tok, 3)))

ParseRequiredArg(body, name) ==
    IF ~HasSplit1(body) THEN PErr("MissingParameter")
    ELSE IF IsUtf8(Split1(body)) THEN POk(name, Split1(body))
    ELSE PErr("InvalidCharacter")

ParseOptionalArg(body, name) ==
    IF HasSplit1(body)
    THEN IF IsUtf8(Split1(body)) THEN POk(name, Split1(body)) ELSE PErr("InvalidCharacter")
    ELSE POk(name, <<>>)

(* ClientCommand::from_bytes.  bytes[bytes.len()-2..] underflows and panics *)
(* when the input is shorter than two bytes.                                *)
from_bytes(bytes) ==
    IF Len(bytes) < 2 THEN Parsed("Panic", "", <<>>, "")
    ELSE IF ~EndsWith(bytes, CRLF) THEN PErr("BadEol")
    ELSE LET body == Take(bytes, Len(bytes) - 2)
             command_bytes == Split0(body)
         IN  IF ~IsUtf8(command_bytes) THEN PErr("InvalidCommandCharacter")
             ELSE IF ~IsAscii(command_bytes) THEN PErr("InvalidCommandCharacter")
             ELSE LET command_str == ToAsciiUppercase(command_bytes)
                  IN  CASE command_str = VerbEHLO -> ParseHello(body)
                        [] command_str = VerbMAIL -> ParseMail(body)
                        [] command_str = VerbRCPT -> ParseRcpt(body)
                        [] command_str = VerbDATA -> POk("Data", <<>>)
                        [] command_str = VerbQUIT -> POk("Quit", <<>>)
                        [] command_str = VerbRSET -> POk("Reset", <<>>)
                        [] command_str = VerbVRFY -> ParseRequiredArg(body, "Verify")
                        [] command_str = VerbEXPN -> ParseRequiredArg(body, "Expand")
                        [] command_str = VerbHELP -> ParseOptionalArg(body, "Help")
                        [] command_str = VerbNOOP -> ParseOptionalArg(body, "Noop")
                        [] OTHER -> Parsed("Err", "InvalidCommand", command_str, "")

(* ----------------------------- framer ---------------------------------- *)

(* The closure of self.buffer.iter().position(..): scans with the flag cr;  *)
(* a byte that follows a CR and is not LF clears the flag and is itself not *)
(* looked at as a CR.  Result: index of the LF ending the line, 0 for None. *)
RECURSIVE LinePosition(_, _, _)
LinePosition(buf, i, cr) ==
    IF i > Len(buf) THEN 0
    ELSE IF cr THEN (IF buf[i] = LF THEN i ELSE LinePosition(buf, i + 1, FALSE))
    ELSE IF buf[i] = CR THEN LinePosition(buf, i + 1, TRUE)
    ELSE LinePosition(buf, i + 1, FALSE)

(* variant: taking a line empties the buffer *)
AfterLineDropsAll(buf) == <<>>

HasLine(buf) == LinePosition(buf, 1, FALSE) # 0
(* variant: the whole buffer is handed over as the line *)
BufferedLineWholeBuffer(buf) == buf

(* self.buffer.drain(0..line_position+1) : the line, and what stays buffered *)
BufferedLine(buf) == Take(buf, LinePosition(buf, 1, FALSE))
AfterLine(buf) == Drop(buf, LinePosition(buf, 1, FALSE))

(* buffered_line.remove(0) when the line starts with '.' *)
Unstuff(line) == IF StartsWith(line, <<DOT>>) THEN Tail(line) ELSE line

(* ------------------------- server replies ------------------------------ *)

(* ServerCommand values; domain is the byte string of HelloOk, text the    *)
(* string of OpeningMessage and BadSequenceOfCommand                        *)
Reply(name, domain, text) == [name |-> name, domain |-> domain, text |-> text]
OpeningMessage == Reply("OpeningMessage", <<>>, "ddelivery")
HelloOk(domain) == Reply("HelloOk", domain, "")
SenderOk == Reply("SenderOk", <<>>, "")
RecipientOk == Reply("RecipientOk", <<>>, "")
NoopOk == Reply("NoopOk", <<>>, "")
ResetOk == Reply("ResetOk", <<>>, "")
StartMailInput == Reply("StartMailInput", <<>>, "")
MailOk == Reply("MailOk", <<>>, "")
ClosingConnection == Reply("ClosingConnection", <<>>, "")
SyntaxError == Reply("SyntaxError", <<>>, "")
CommandUnrecognized == Reply("CommandUnrecognized", <<>>, "")
CommandNotImplemented == Reply("CommandNotImplemented", <<>>, "")
BadSequenceOfCommand(text) == Reply("BadSequenceOfCommand", <<>>, text)

AlreadyStarted == "Mail sequence already started"
NoMailSequence == "No mail sequence. Begin with a MAIL command"

(* three-digit code that ServerCommand::into_bytes puts in front *)
ReplyCode(r) ==
    CASE r.name = "OpeningMessage" -> 220
      [] r.name \in {"HelloOk", "SenderOk", "RecipientOk", "NoopOk", "ResetOk", "MailOk"} -> 250
      [] r.name = "StartMailInput" -> 354
      [] r.name = "ClosingConnection" -> 221
      [] r.name = "SyntaxError" -> 501
      [] r.name = "CommandNotImplemented" -> 502
      [] r.name = "CommandUnrecognized" -> 500
      [] r.name = "BadSequenceOfCommand" -> 503

(* ------------------------------ Mail ----------------------------------- *)

NoMail == [some |-> FALSE, from |-> <<>>, receipients |-> <<>>, content |-> <<>>]
(* Mail::new *)
NewMail(from_address) ==
    [some |-> TRUE, from |-> from_address, receipients |-> <<>>, content |-> <<>>]

(* -------------------- arms of MailReceiver::next ----------------------- *)
(* Each arm gives the reply it sends and the value of current_mail after.  *)

Arm(reply, mail) == [reply |-> reply, mail |-> mail]

HelloArm(cur, domain) == Arm(HelloOk(domain), cur)

(* variant: a second MAIL replaces the sender of the running transaction *)
MailArmOverwrites(cur, from_address) == Arm(SenderOk, NewMail(from_address))

MailArm(cur, from_address) ==
    IF cur.some THEN Arm(BadSequenceOfCommand(AlreadyStarted), cur)
    ELSE Arm(SenderOk, NewMail(from_address))

(* variant: the recipient is put in front of the list *)
RecipientArmPrepends(cur, recipient_address) ==
    IF cur.some
    THEN Arm(RecipientOk, [cur EXCEPT !.receipients = <<recipient_address>> \o @])
    ELSE Arm(BadSequenceOfCommand(NoMailSequence), cur)

RecipientArm(cur, recipient_address) ==
    IF cur.some
    THEN Arm(RecipientOk, [cur EXCEPT !.receipients = Append(@, recipient_address)])
    ELSE Arm(BadSequenceOfCommand(NoMailSequence), cur)

(* variant: DATA is refused when no Mail is in progress *)
DataArmNeedsMail(cur) ==
    IF cur.some THEN Arm(StartMailInput, cur)
    ELSE Arm(BadSequenceOfCommand(NoMailSequence), cur)

DataArm(cur) == Arm(StartMailInput, cur)

(* variant: the Mail is returned but its terminator is answered 503 *)
MailInputArmRefuses(cur, content) ==
    Arm(BadSequenceOfCommand(NoMailSequence), [cur EXCEPT !.content = content])

(* current_mail.take(): the mail leaves the session either way *)
MailInputArm(cur, content) ==
    IF cur.some THEN Arm(MailOk, [cur EXCEPT !.content = content])
    ELSE Arm(BadSequenceOfCommand(NoMailSequence), NoMail)

QuitArm(cur) == Arm(ClosingConnection, cur)
NotImplementedArm(cur) == Arm(CommandNotImplemented, cur)
(* variant: NOOP drops the Mail in progress *)
NoopArmClears(cur) == Arm(NoopOk, NoMail)

NoopArm(cur) == Arm(NoopOk, cur)
(* variant: RSET answers without clearing current_mail *)
ResetArmKeeps(cur) == Arm(ResetOk, cur)

ResetArm(cur) == Arm(ResetOk, NoMail)

(* variant: every parse error is answered 501 *)
ParseErrorReplyAlways501(e) == SyntaxError

ParseErrorReply(e) ==
    IF e \in {"BadEol", "InvalidCharacter", "InvalidCommandCharacter", "SyntaxInvalid",
              "MissingDomain", "InvalidRecipient", "InvalidFrom", "MissingParameter"}
    THEN SyntaxError
    ELSE CommandUnrecognized

ParseErrorArm(cur, e) == Arm(ParseErrorReply(e), cur)

(* ------------------------------ state ---------------------------------- *)

VARIABLES
    wire,           \* bytes the client has sent and the server has not read yet
    closed,         \* the client has closed its sending side
    clientData,     \* client: a DATA line was sent and its payload is not terminated
    sentPayload,    \* client: the payload lines sent since that DATA line
    gContent,       \* client: the payload of the last terminated DATA, dots unstuffed
    shut,           \* Session.source was shut down (TcpStream::shutdown(Both))
    shutdownCalls,  \* number of calls of Session::shutdown
    buffer,         \* CommandIter.buffer
    data,           \* CommandIter.data
    buffered_data,  \* local buffered_data of the running CommandIter::next
    current_mail,   \* local current_mail of the running MailReceiver::next
    pc,             \* "idle": the consumer holds the iterator; "running": inside
                    \* MailReceiver::next; "logged": inside it, a failed read was
                    \* just logged; "dropped": the iterator was dropped
    lastYield,      \* what the last MailReceiver::next returned: "mail", "err", "end"
    lastMail,       \* the Mail of that return
    written,        \* replies written to the transport by the latest step
    framed,         \* the line the latest step took out of the buffer
    gTxn,           \* the transaction as seen from the replies on the wire
    lastCmd,        \* "Reset" or "Hello" when that was the last answered command line
    quitAnswered,   \* a 221 reply was written
    helloSeen,      \* a 250 hello reply was written
    writeFailed,    \* a reply could not be written: some step returned that error
    fInput,         \* framer runs: the whole input stream
    fOut,           \* framer runs: the items CommandIter::next returned
    fConsumed,      \* framer runs: bytes drained before the latest line
    gP,             \* framer and parser runs: the parts the input was built from
    queue,          \* sink: every SenderMsg sent on the channel so far, in order
    taken,          \* sink: how many of them run_sender_task has received
    todo,           \* sink: recipients of the mail in hand that are still to be served
    payload,        \* sink: content of the mail in hand
    bundles,        \* sink: the bundles send_bundle accepted, in order
    received,       \* receiver: the bundles recv_bundle returned, in order
    sends           \* receiver: the LMTP sends made, in order, each with its outcome

clientVars == <<wire, closed, clientData, sentPayload, gContent>>
transportVars == <<shut, shutdownCalls>>
framerVars == <<buffer, data, buffered_data>>
sessionVars == <<current_mail, pc, lastYield, lastMail>>
histVars == <<gTxn, lastCmd, quitAnswered, helloSeen, writeFailed>>
obsVars == <<written, framed, histVars>>
sinkVars == <<queue, taken, todo, payload, bundles>>
receiverVars == <<received, sends>>
labVars == <<fInput, fOut, fConsumed, gP, sinkVars, receiverVars>>
vars == <<clientVars, transportVars, framerVars, sessionVars, obsVars, labVars>>

(* ------------------------------ bounds --------------------------------- *)

MaxRecipients == 2      \* recipients the client puts into one transaction
MaxPayloadLines == 2    \* lines the client puts into one DATA payload
MaxShutdowns == 2       \* shutdown calls after which the consumer stops polling
ReadBufferSize == 2048  \* read_buffer of CommandIter::next

(* ------------------------- what clients send --------------------------- *)

CommandLines == {
    <<69,72,76,79,32,120,13,10>>,                                \* EHLO x
    <<77,65,73,76,32,70,82,79,77,58,60,97,64,98,62,13,10>>,      \* MAIL FROM:<a@b>
    <<109,97,105,108,32,70,82,79,77,58,60,99,64,100,62,13,10>>,  \* mail FROM:<c@d>
    <<82,67,80,84,32,84,79,58,60,97,64,98,62,13,10>>,            \* RCPT TO:<a@b>
    <<82,67,80,84,32,84,79,58,60,99,64,100,62,13,10>>,           \* RCPT TO:<c@d>
    <<68,65,84,65,13,10>>,                                       \* DATA
    <<81,85,73,84,13,10>>,                                       \* QUIT
    <<82,83,69,84,13,10>>,                                       \* RSET
    <<78,79,79,80,13,10>>,                                       \* NOOP
    <<86,82,70,89,32,120,13,10>>,                                \* VRFY x
    <<69,88,80,78,32,120,13,10>>,                                \* EXPN x
    <<72,69,76,80,13,10>>,                                       \* HELP
    <<70,79,79,13,10>>,                                          \* FOO
    <<69,72,76,79,13,10>>,                                       \* EHLO
    <<77,65,73,76,32,84,79,58,120,13,10>>,                       \* MAIL TO:x
    <<77,65,73,76,32,70,82,79,77,58,97,64,98,13,10>>,            \* MAIL FROM:a@b
    <<77,65,73,76,32,70,82,79,77,58,60,97,64,98,13,10>>,         \* MAIL FROM:<a@b
    <<82,67,80,84,32,84,79,58,99,64,100,13,10>>,                 \* RCPT TO:c@d
    <<86,82,70,89,13,10>>,                                       \* VRFY
    <<195,169,13,10>>,                                           \* e-acute (UTF-8)
    <<78,79,79,80,32,255,13,10>>,                                \* NOOP 0xFF
    <<81,85,73,84,13,10,78,79,79,80,13,10>>                      \* QUIT NOOP pipelined
}

PayloadLines == {
    <<104,13,10>>,           \* h
    <<46,46,13,10>>,         \* ..   (the stuffed line ".")
    <<81,85,73,84,13,10>>    \* QUIT
}

(* dot-unstuffed concatenation of the lines a client sent as one payload *)
RECURSIVE SentContent(_)
SentContent(lines) ==
    IF lines = <<>> THEN <<>>
    ELSE (IF Head(lines)[1] = DOT THEN Tail(Head(lines)) ELSE Head(lines))
         \o SentContent(Tail(lines))

NoFrame == [kind |-> "none", line |-> <<>>, name |-> "", arg |-> <<>>]
Frame(kind, line, name, arg) == [kind |-> kind, line |-> line, name |-> name, arg |-> arg]
NoTxn == [st |-> "none", from |-> <<>>, rcpts |-> <<>>]

(* no sink task is part of the run *)
NoSink == queue = <<>> /\ taken = 0 /\ todo = <<>> /\ payload = <<>> /\ bundles = <<>>
(* no receiver is part of the run *)
NoReceiver == received = <<>> /\ sends = <<>>

Init ==
    /\ wire = <<>> /\ closed = FALSE
    /\ clientData = FALSE /\ sentPayload = <<>> /\ gContent = <<>>
    /\ shut = FALSE /\ shutdownCalls = 0
    /\ buffer = <<>> /\ data = FALSE /\ buffered_data = <<>>
    /\ current_mail = NoMail /\ pc = "idle" /\ lastYield = "none" /\ lastMail = NoMail
    /\ written = <<OpeningMessage>> /\ framed = NoFrame
    /\ gTxn = NoTxn /\ lastCmd = "" /\ quitAnswered = FALSE
    /\ helloSeen = FALSE /\ writeFailed = FALSE
    /\ NoSink /\ NoReceiver
    /\ fInput = <<>> /\ fOut = <<>> /\ fConsumed = 0 /\ gP = <<>>

(* a step that takes no line out of the buffer and writes no reply *)
Quiet == written' = <<>> /\ framed' = NoFrame /\ UNCHANGED histVars

(* ------------------------------ client --------------------------------- *)

(* A client sends one vocabulary entry once everything it sent before was   *)
(* read and framed: command lines outside a payload, payload lines and the  *)
(* terminator inside.                                                       *)
ClientSendCommand(l) ==
    /\ ~shut /\ ~closed /\ ~clientData
    /\ wire = <<>> /\ ~HasLine(buffer)
    /\ from_bytes(l).name = "Recipient" => Len(current_mail.receipients) < MaxRecipients
    /\ wire' = l
    /\ clientData' = (from_bytes(l).name = "Data")
    /\ sentPayload' = <<>>
    /\ gContent' = <<>>
    /\ Quiet
    /\ UNCHANGED <<closed, transportVars, framerVars, sessionVars, labVars>>

ClientSendPayload(l) ==
    /\ ~shut /\ ~closed /\ clientData
    /\ wire = <<>> /\ ~HasLine(buffer)
    /\ Len(sentPayload) < MaxPayloadLines
    /\ wire' = l
    /\ sentPayload' = Append(sentPayload, l)
    /\ Quiet
    /\ UNCHANGED <<closed, clientData, gContent, transportVars, framerVars, sessionVars, labVars>>

ClientSendTerminator ==
    /\ ~shut /\ ~closed /\ clientData
    /\ wire = <<>> /\ ~HasLine(buffer)
    /\ wire' = TermLine
    /\ clientData' = FALSE
    /\ gContent' = SentContent(sentPayload)
    /\ sentPayload' = <<>>
    /\ Quiet
    /\ UNCHANGED <<closed, transportVars, framerVars, sessionVars, labVars>>

ClientClose ==
    /\ ~shut /\ ~closed /\ wire = <<>>
    /\ closed' = TRUE
    /\ Quiet
    /\ UNCHANGED <<wire, clientData, sentPayload, gContent, transportVars, framerVars,
                   sessionVars, labVars>>

(* ----------------------------- consumer -------------------------------- *)

(* The consumer of the iterator calls MailReceiver::next: current_mail is a *)
(* fresh local of each call.  The iterator is not fused: next may be called  *)
(* again after it returned None or an error.                                 *)
ConsumerNext ==
    /\ pc = "idle" /\ shutdownCalls < MaxShutdowns
    /\ pc' = "running"
    /\ current_mail' = NoMail
    /\ lastYield' = "none" /\ lastMail' = NoMail
    /\ written' = <<>> /\ framed' = NoFrame
    /\ UNCHANGED <<clientVars, transportVars, framerVars, histVars, labVars>>

(* Drop for Session: shutdown, an error is logged *)
ConsumerDrop ==
    /\ pc = "idle"
    /\ pc' = "dropped"
    /\ shut' = TRUE /\ shutdownCalls' = shutdownCalls + 1
    /\ written' = <<>> /\ framed' = NoFrame
    /\ UNCHANGED <<clientVars, framerVars, current_mail, lastYield, lastMail, histVars, labVars>>

(* --------------------- transport reads of the framer ------------------- *)

Reading == pc = "running" /\ ~HasLine(buffer)


ReadChunk ==
    /\ Reading /\ wire # <<>>
    /\ \E n \in 1..Len(wire) :
          /\ n <= ReadBufferSize
          /\ buffer' = buffer \o Take(wire, n)
          /\ wire' = Drop(wire, n)
    /\ written' = <<>> /\ framed' = NoFrame
    /\ UNCHANGED <<closed, clientData, sentPayload, gContent, transportVars, data, buffered_data,
                   sessionVars, histVars, labVars>>

(* read fails: CommandIter::next returns Some(Err(Io)), its local            *)
(* buffered_data is gone; MailReceiver::next logs the error                  *)
ReadError ==
    /\ Reading
    /\ buffered_data' = <<>>
    /\ pc' = "logged"
    /\ written' = <<>> /\ framed' = NoFrame
    /\ UNCHANGED <<clientVars, transportVars, buffer, data, current_mail, lastYield, lastMail,
                   histVars, labVars>>

(* after the log line the loop over the commands calls CommandIter::next again *)
LogAndContinue ==
    /\ pc = "logged"
    /\ pc' = "running"
    /\ Quiet
    /\ UNCHANGED <<clientVars, transportVars, framerVars, current_mail, lastYield, lastMail,
                   labVars>>

(* session.shutdown() after the loop over the commands, and the return *)
ShutdownAndReturn ==
    /\ shut' = TRUE /\ shutdownCalls' = shutdownCalls + 1
    /\ pc' = "idle" /\ current_mail' = NoMail /\ lastMail' = NoMail
    /\ \E sok \in BOOLEAN : lastYield' = IF sok THEN "end" ELSE "err"

(* read returns 0: ended, CommandIter::next returns None *)
ReadEof ==
    /\ Reading
    /\ (closed /\ wire = <<>>) \/ shut
    /\ buffered_data' = <<>>
    /\ ShutdownAndReturn
    /\ written' = <<>> /\ framed' = NoFrame
    /\ UNCHANGED <<clientVars, buffer, data, histVars, labVars>>

(* --------------------------- session steps ----------------------------- *)

(* The transaction an observer of the wire derives from the answered lines: *)
(* opened by a MAIL answered SenderOk, extended by each RCPT answered        *)
(* RecipientOk, cancelled by ResetOk, sent by MailOk.  A transaction that    *)
(* was cancelled or sent is forgotten at the next answered line.             *)
Observe(g, fr, r) ==
    CASE r.name = "SenderOk" -> [st |-> "open", from |-> fr.arg, rcpts |-> <<>>]
      [] r.name = "RecipientOk" -> [g EXCEPT !.rcpts = Append(@, fr.arg)]
      [] r.name = "ResetOk" -> IF g.st = "open" THEN [g EXCEPT !.st = "reset"] ELSE NoTxn
      [] r.name = "MailOk" -> IF g.st = "open" THEN [g EXCEPT !.st = "sent"]
                              ELSE [NoTxn EXCEPT !.st = "stale"]
      [] OTHER -> IF g.st = "open" THEN g ELSE NoTxn

(* send_command(arm.reply) and what follows it: "continue" with the next    *)
(* command, "mail": return Some(Ok(mail)), "quit": break.  A failed write   *)
(* returns Some(Err(e)).  Nothing can be written once the transport is shut.*)
Answer(fr, arm, then) ==
    /\ framed' = fr
    /\ \E ok \in BOOLEAN :
          /\ ok => ~shut
          /\ IF ok
             THEN /\ written' = <<arm.reply>>
                  /\ gTxn' = Observe(gTxn, fr, arm.reply)
                  /\ lastCmd' = (IF fr.name \in {"Reset", "Hello"} THEN fr.name ELSE "")
                  /\ quitAnswered' = (quitAnswered \/ arm.reply.name = "ClosingConnection")
                  /\ helloSeen' = (helloSeen \/ arm.reply.name = "HelloOk")
                  /\ writeFailed' = writeFailed
                  /\ CASE then = "continue" ->
                            /\ pc' = "running" /\ current_mail' = arm.mail
                            /\ lastYield' = "none" /\ lastMail' = NoMail
                            /\ UNCHANGED transportVars
                       [] then = "mail" ->
                            /\ pc' = "idle" /\ current_mail' = NoMail
                            /\ lastYield' = "mail" /\ lastMail' = arm.mail
                            /\ UNCHANGED transportVars
                       [] then = "quit" -> ShutdownAndReturn
             ELSE /\ written' = <<>>
                  /\ gTxn' = gTxn
                  /\ lastCmd' = ""
                  /\ quitAnswered' = quitAnswered
                  /\ helloSeen' = helloSeen
                  /\ writeFailed' = TRUE
                  /\ pc' = "idle" /\ current_mail' = NoMail
                  /\ lastYield' = "err" /\ lastMail' = NoMail
                  /\ UNCHANGED transportVars

Framing == pc = "running" /\ HasLine(buffer)
Line == BufferedLine(buffer)
Cmd == from_bytes(Line)

(* DATA mode, a payload line: unstuffed and appended, no reply *)
DataLine ==
    /\ Framing /\ data /\ Line # TermLine
    /\ buffer' = AfterLine(buffer)
    /\ buffered_data' = buffered_data \o Unstuff(Line)
    /\ framed' = Frame("payload", Line, "", <<>>)
    /\ written' = <<>>
    /\ UNCHANGED <<clientVars, transportVars, data, sessionVars, histVars,
                   labVars>>

(* DATA mode, the terminator: MailInput(buffered_data) goes to the session *)
DataEnd ==
    /\ Framing /\ data /\ Line = TermLine
    /\ buffer' = AfterLine(buffer)
    /\ data' = FALSE
    /\ buffered_data' = <<>>
    /\ Answer(Frame("term", Line, "MailInput", buffered_data),
              MailInputArm(current_mail, buffered_data),
              IF current_mail.some THEN "mail" ELSE "continue")
    /\ UNCHANGED <<clientVars, labVars>>

(* variant: the framer is never switched to DATA mode *)
EntersDataModeNever(name) == FALSE

(* if matches!(command, ClientCommand::Data) { self.data = true } *)
EntersDataMode(name) == name = "Data"

(* command mode: the line is parsed; Data switches the framer to DATA mode *)
OnCommand(name, arm, then) ==
    /\ Framing /\ ~data /\ Cmd.tag = "Ok" /\ Cmd.name = name
    /\ buffer' = AfterLine(buffer)
    /\ data' = (data \/ EntersDataMode(name))
    /\ buffered_data' = <<>>
    /\ Answer(Frame("cmd", Line, name, Cmd.arg), arm, then)
    /\ UNCHANGED <<clientVars, labVars>>

OnHello == OnCommand("Hello", HelloArm(current_mail, Cmd.arg), "continue")
OnMail == OnCommand("Mail", MailArm(current_mail, Cmd.arg), "continue")
OnRecipient == OnCommand("Recipient", RecipientArm(current_mail, Cmd.arg), "continue")
OnData == OnCommand("Data", DataArm(current_mail), "continue")
OnQuit == OnCommand("Quit", QuitArm(current_mail), "quit")
OnExpand == OnCommand("Expand", NotImplementedArm(current_mail), "continue")
OnVerify == OnCommand("Verify", NotImplementedArm(current_mail), "continue")
OnNoop == OnCommand("Noop", NoopArm(current_mail), "continue")
OnReset == OnCommand("Reset", ResetArm(current_mail), "continue")
OnHelp == OnCommand("Help", NotImplementedArm(current_mail), "continue")

OnParseError ==
    /\ Framing /\ ~data /\ Cmd.tag = "Err"
    /\ buffer' = AfterLine(buffer)
    /\ buffered_data' = <<>>
    /\ Answer(Frame("err", Line, Cmd.name, Cmd.arg), ParseErrorArm(current_mail, Cmd.name),
              "continue")
    /\ UNCHANGED <<clientVars, data, labVars>>

Next ==
    \/ \E l \in CommandLines : ClientSendCommand(l)
    \/ \E l \in PayloadLines : ClientSendPayload(l)
    \/ ClientSendTerminator
    \/ ClientClose
    \/ ConsumerNext
    \/ ConsumerDrop
    \/ ReadChunk
    \/ ReadError
    \/ LogAndContinue
    \/ ReadEof
    \/ DataLine
    \/ DataEnd
    \/ OnHello
    \/ OnMail
    \/ OnRecipient
    \/ OnData
    \/ OnQuit
    \/ OnExpand
    \/ OnVerify
    \/ OnNoop
    \/ OnReset
    \/ OnHelp
    \/ OnParseError

Spec == Init /\ [][Next]_vars

(* ======================= properties of the session ===================== *)

(* the latest step took a line out of the buffer *)
FrameStep == buffer' # buffer /\ framed'.kind # "none"
(* the latest step's write failed: MailReceiver::next returned Some(Err(e)) *)
WriteFailed == framed.kind \in {"cmd", "err", "term"} /\ written = <<>>

AddrAB == <<60,97,64,98,62>>
AddrCD == <<60,99,64,100,62>>

(* C1: every emitted Mail carries the sender of the MAIL that was answered  *)
(* SenderOk in its transaction and exactly the recipients answered           *)
(* RecipientOk since then, in order, duplicates kept; a transaction that was *)
(* cancelled by RSET or already emitted contributes nothing.                 *)
C1_EmittedEnvelope ==
    lastYield = "mail" =>
        /\ lastMail.some
        /\ gTxn.st = "sent"
        /\ lastMail.from = gTxn.from
        /\ lastMail.from # <<>>
        /\ lastMail.receipients = gTxn.rcpts

C1_Witness ==
    /\ lastYield = "mail"
    /\ lastMail.from = AddrCD
    /\ lastMail.receipients = <<AddrAB, AddrAB>>

(* C2: the content of every emitted Mail is the payload the client sent      *)
(* between DATA and the terminator, dots unstuffed, whatever the transport   *)
(* does (splits, a failed read in the middle).                               *)
C2_ContentVerbatim ==
    (framed.kind = "term" /\ lastYield = "mail") => lastMail.content = gContent

(* C3: one reply per framed command line (valid or not) unless the write     *)
(* fails; DATA gets one 354, the terminator one reply, a payload line none;  *)
(* QUIT gets one 221 and nothing is written after it.                        *)
C3_OneReplyPerLine ==
    /\ framed.kind \in {"cmd", "err", "term"} =>
          /\ Len(written) <= 1
          /\ written = <<>> => (lastYield = "err" /\ pc = "idle")
    /\ (framed.kind = "cmd" /\ framed.name = "Data" /\ ~WriteFailed) =>
          written = <<StartMailInput>>
    /\ (framed.kind = "cmd" /\ framed.name = "Hello" /\ ~WriteFailed) =>
          written = <<HelloOk(framed.arg)>>
    /\ (framed.kind = "cmd" /\ framed.name = "Quit" /\ ~WriteFailed) =>
          written = <<ClosingConnection>>
    /\ (framed.kind = "term" /\ ~WriteFailed) =>
          written[1].name \in {"MailOk", "BadSequenceOfCommand"}
    /\ framed.kind \in {"payload", "none"} => written \in {<<>>, <<OpeningMessage>>}
    /\ (clientData /\ sentPayload # <<>> /\ framed.kind # "none") =>
          (framed.kind = "payload" /\ written = <<>> /\ pc = "running")
    /\ (quitAnswered /\ framed.name # "Quit") => written = <<>>

C3_Witness ==
    /\ clientData /\ Len(sentPayload) = 2
    /\ framed.kind = "payload" /\ framed.line = <<81,85,73,84,13,10>>
    /\ written = <<>>

(* C6: RSET is answered 250 OK and leaves no in-progress Mail; a RCPT right  *)
(* after it is answered 503, a MAIL right after it is answered SenderOk and  *)
(* opens a transaction without recipients; no Mail is emitted unless a       *)
(* SenderOk came after the last RSET.                                        *)
C6_ResetClears ==
    [][ /\ (FrameStep /\ framed'.kind = "cmd" /\ framed'.name = "Reset" /\ written' # <<>>) =>
              (written' = <<ResetOk>> /\ ~current_mail'.some /\ pc' = "running")
        /\ (FrameStep /\ lastCmd = "Reset" /\ framed'.name = "Recipient" /\ written' # <<>>) =>
              (written' = <<BadSequenceOfCommand(NoMailSequence)>> /\ ~current_mail'.some)
        /\ (FrameStep /\ lastCmd = "Reset" /\ framed'.name = "Mail" /\ written' # <<>>) =>
              (written' = <<SenderOk>> /\ current_mail' = NewMail(framed'.arg))
        /\ (lastYield # "mail" /\ lastYield' = "mail") => gTxn.st = "open"
      ]_vars

C6_Witness ==
    /\ framed.name = "Reset" /\ written = <<ResetOk>>
    /\ gTxn.st = "reset" /\ gTxn.from # <<>> /\ Len(gTxn.rcpts) = 2
    /\ ~current_mail.some /\ pc = "running"

(* C7: after a Hello in any state no Mail is in progress: a RCPT that        *)
(* follows it is answered 503 and a MAIL that follows it SenderOk.           *)
C7_HelloClears ==
    [][ /\ (FrameStep /\ lastCmd = "Hello" /\ framed'.name = "Recipient" /\ written' # <<>>) =>
              written' = <<BadSequenceOfCommand(NoMailSequence)>>
        /\ (FrameStep /\ lastCmd = "Hello" /\ framed'.name = "Mail" /\ written' # <<>>) =>
              written' = <<SenderOk>>
      ]_vars

(* C8: a MAIL while a Mail is in progress is answered 503 "Mail sequence     *)
(* already started" and changes nothing of it; a RCPT without a Mail is      *)
(* answered 503 "No mail sequence ..." and creates none; the sender of an    *)
(* in-progress Mail never changes.                                           *)
C8_OneTransaction ==
    [][ /\ (FrameStep /\ framed'.name = "Mail" /\ current_mail.some /\ written' # <<>>) =>
              (written' = <<BadSequenceOfCommand(AlreadyStarted)>> /\ current_mail' = current_mail)
        /\ (FrameStep /\ framed'.name = "Recipient" /\ ~current_mail.some /\ written' # <<>>) =>
              (written' = <<BadSequenceOfCommand(NoMailSequence)>> /\ ~current_mail'.some)
        /\ (current_mail.some /\ current_mail'.some) => current_mail'.from = current_mail.from
      ]_vars

C8_Witness ==
    /\ framed.name = "Mail" /\ framed.arg = AddrCD
    /\ written = <<BadSequenceOfCommand(AlreadyStarted)>>
    /\ current_mail.some /\ current_mail.from = AddrAB /\ Len(current_mail.receipients) = 1

(* C9: a line that fails to parse is answered 501 for BadEol,                *)
(* InvalidCharacter, InvalidCommandCharacter, SyntaxInvalid, MissingDomain,  *)
(* MissingParameter, InvalidRecipient and InvalidFrom and 500 for            *)
(* MissingCommand and InvalidCommand, and the session goes on reading.       *)
C9_ParseErrorReplies ==
    (framed.kind = "err" /\ ~WriteFailed) =>
        /\ framed.name \in {"BadEol", "InvalidCharacter", "InvalidCommandCharacter",
                            "SyntaxInvalid", "MissingDomain", "MissingParameter",
                            "InvalidRecipient", "InvalidFrom"}
              => (written = <<SyntaxError>> /\ ReplyCode(written[1]) = 501)
        /\ framed.name \in {"MissingCommand", "InvalidCommand"}
              => (written = <<CommandUnrecognized>> /\ ReplyCode(written[1]) = 500)
        /\ Len(written) = 1
        /\ pc = "running" /\ lastYield = "none" /\ ~shut

C9_Witness ==
    /\ framed.kind = "err" /\ framed.name = "InvalidCommand"
    /\ written = <<CommandUnrecognized>>
    /\ current_mail.some /\ pc = "running"

(* the bytes of a MAIL line that follow "MAIL FROM:" up to the CRLF *)
FromArgument(line) == Drop(Take(line, Len(line) - 2), 10)

(* C10: a MAIL line is accepted only if the bytes after "FROM:" start with   *)
(* '<', contain a '>' and contain an '@' before the first '>'; the sender    *)
(* held by the session is made of bytes the client sent.                     *)
C10_MailOnlyWellFramed ==
    (framed.kind = "cmd" /\ framed.name = "Mail") =>
        LET a == FromArgument(framed.line)
        IN  /\ StartsWith(a, <<LT>>)
            /\ Contains(a, GT)
            /\ Contains(Take(a, IndexOf(a, GT)), AT)
            /\ framed.arg = Take(a, IndexOf(a, GT))

(* C14: a MAIL is answered SenderOk, and opens a transaction, only after a   *)
(* Hello was accepted on the session; no Mail is emitted on a session that   *)
(* never accepted a Hello.                                                   *)
C14_MailOnlyAfterHello ==
    /\ (framed.name = "Mail" /\ written = <<SenderOk>>) => helloSeen
    /\ current_mail.some => helloSeen
    /\ lastYield = "mail" => helloSeen

(* C15: every emitted Mail has at least one recipient: the terminator of a   *)
(* payload is answered 250 Mail Ok only when a RCPT was answered             *)
(* RecipientOk in the transaction.                                           *)
C15_AtLeastOneRecipient ==
    /\ lastYield = "mail" => Len(lastMail.receipients) >= 1
    /\ (framed.kind = "term" /\ written = <<MailOk>>) => Len(gTxn.rcpts) >= 1

(* C16: a QUIT is answered 221, its step returns end-of-sequence with the    *)
(* transport shut down and emits nothing; after the 221 no step takes a      *)
(* line out of the buffer, writes a reply or emits a Mail.                   *)
C16_QuitEnds ==
    [][ /\ (FrameStep /\ framed'.name = "Quit" /\ written' # <<>>) =>
              /\ written' = <<ClosingConnection>>
              /\ shut' /\ pc' = "idle" /\ lastYield' = "end"
              /\ ~current_mail'.some
        /\ quitAnswered =>
              /\ ~FrameStep
              /\ written' = <<>>
              /\ lastYield' # "mail"
      ]_vars

(* C17: a failed write makes the step return the error without emitting the  *)
(* Mail, and ends the sequence: afterwards no step takes a line out of the   *)
(* buffer, writes a reply or emits a Mail.                                   *)
C17_WriteErrorEnds ==
    [][ /\ (FrameStep /\ framed'.kind \in {"cmd", "err", "term"} /\ written' = <<>>) =>
              (lastYield' = "err" /\ pc' = "idle" /\ ~lastMail'.some)
        /\ writeFailed =>
              /\ ~FrameStep
              /\ written' = <<>>
              /\ lastYield' # "mail"
      ]_vars

(* C19: when the session is dropped its transport was shut down exactly      *)
(* once, whatever the path: QUIT, EOF, a write error, an early drop.         *)
C19_ShutdownOnce ==
    /\ shutdownCalls <= 1
    /\ pc = "dropped" => shutdownCalls = 1

C25_FrameUnchanged ==
    [][ (/\ FrameStep
         /\ \/ framed'.kind = "err"
            \/ framed'.kind = "cmd" /\ framed'.name \in {"Noop", "Verify", "Expand", "Help"}
         /\ written' # <<>>) =>
            /\ Len(written') = 1
            /\ written'[1] \in {NoopOk, CommandNotImplemented, CommandUnrecognized, SyntaxError}
            /\ current_mail' = current_mail
            /\ data' = data /\ ~data
            /\ pc' = "running"
            /\ gTxn.st = "open" => gTxn' = gTxn
      ]_vars

C25_Witness ==
    /\ framed.kind = "cmd" /\ framed.name = "Noop" /\ written = <<NoopOk>>
    /\ current_mail.some /\ current_mail.receipients = <<AddrAB>>
    /\ gTxn.st = "open"

(* the step is the return of MailReceiver::next at the end of the loop over  *)
(* the commands, reached without a line: the read returned 0                 *)
EofReturn == pc = "running" /\ pc' = "idle" /\ ~FrameStep

(* C27: at EOF the step returns end-of-sequence and no error, with the       *)
(* transport shut down; the partial line in the buffer is not framed and no  *)
(* Mail comes out; a Mail comes out only of the step that takes a            *)
(* terminator.                                                               *)
C27_EofEndsCleanly ==
    [][ /\ EofReturn =>
              /\ lastYield' = "end"
              /\ shut'
              /\ ~lastMail'.some /\ ~current_mail'.some
              /\ framed' = NoFrame /\ written' = <<>>
        /\ (lastYield # "mail" /\ lastYield' = "mail") =>
              (FrameStep /\ framed'.kind = "term")
      ]_vars

(* C28: a DATA with no Mail in progress is answered 354 and switches the     *)
(* framer to DATA mode; the lines that follow are payload, not answered and  *)
(* without effect; the terminator is answered 503 "No mail sequence. Begin   *)
(* with a MAIL command", no Mail is emitted and the framer is back in        *)
(* command mode.                                                             *)
C28_DataWithoutMail ==
    [][ /\ (FrameStep /\ ~data /\ ~current_mail.some /\ framed'.kind = "cmd"
            /\ framed'.name = "Data" /\ written' # <<>>) =>
              /\ written' = <<StartMailInput>>
              /\ data' /\ ~current_mail'.some /\ pc' = "running"
        /\ (FrameStep /\ data /\ ~current_mail.some) =>
              /\ framed'.kind \in {"payload", "term"}
              /\ ~current_mail'.some
              /\ lastYield' # "mail"
              /\ shut' = shut
              /\ framed'.kind = "payload" =>
                    (written' = <<>> /\ data' /\ pc' = "running" /\ UNCHANGED histVars)
              /\ framed'.kind = "term" =>
                    /\ framed'.line = TermLine
                    /\ ~data'
                    /\ written' # <<>> =>
                          /\ written' = <<BadSequenceOfCommand(NoMailSequence)>>
                          /\ ReplyCode(written'[1]) = 503
                          /\ pc' = "running"
      ]_vars

C28_Witness ==
    /\ framed.kind = "term" /\ written = <<BadSequenceOfCommand(NoMailSequence)>>
    /\ gContent = <<81,85,73,84,13,10>>
    /\ ~quitAnswered /\ ~shut /\ ~data /\ pc = "running"
    /\ gTxn.st = "none"

(* the step returns Some(Ok(mail)) *)
EmitsMail == pc = "running" /\ pc' = "idle" /\ lastYield' = "mail"

(* C29: a step emits a Mail if and only if it wrote the 250 Mail Ok of that  *)
(* Mail, so Mails emitted and Mail Ok replies written stay equal in number;  *)
(* when the write of Mail Ok fails the step yields the error and the Mail is *)
(* gone.                                                                     *)
C29_MailIffMailOk ==
    [][ /\ EmitsMail <=> (FrameStep /\ written' = <<MailOk>>)
        /\ EmitsMail => (lastMail'.some /\ framed'.kind = "term")
        /\ (lastYield # "mail" /\ lastYield' = "mail") => EmitsMail
        /\ (FrameStep /\ framed'.kind = "term" /\ current_mail.some /\ written' = <<>>) =>
              /\ lastYield' = "err" /\ pc' = "idle"
              /\ ~lastMail'.some /\ ~current_mail'.some
      ]_vars

C29_Witness ==
    /\ framed.kind = "term" /\ written = <<>>
    /\ lastYield = "err" /\ gTxn.st = "open" /\ Len(gTxn.rcpts) = 1
    /\ ~current_mail.some /\ ~lastMail.some

(* ------------------------------ liveness ------------------------------- *)
(* MailReceiver::next runs without waiting for anything but the transport:  *)
(* whenever one of its steps can be taken, one is taken.                     *)

SessionStep ==
    \/ ReadChunk \/ ReadError \/ LogAndContinue \/ ReadEof
    \/ DataLine \/ DataEnd
    \/ OnHello \/ OnMail \/ OnRecipient \/ OnData \/ OnQuit
    \/ OnExpand \/ OnVerify \/ OnNoop \/ OnReset \/ OnHelp
    \/ OnParseError

(* a read that can deliver bytes or EOF again and again does so at last *)
SpecLive ==
    Init /\ [][Next]_vars /\ WF_vars(SessionStep) /\ SF_vars(ReadChunk) /\ SF_vars(ReadEof)

(* C18: every call of MailReceiver::next returns, also when the reads of    *)
(* its transport fail: the session is then given up and not kept in a loop   *)
(* of reading, failing and logging.                                          *)
C18_StepReturns == (pc \in {"running", "logged"}) ~> (pc \in {"idle", "dropped"})

(* ========================= the framer alone ============================ *)
(* CommandIter over an arbitrary byte stream: the whole input is in flight  *)
(* from the start, the transport hands it over in arbitrary pieces and then *)
(* reports EOF; CommandIter::next is called until it returns None.          *)

MaxInputLen == 5        \* length of the byte streams fed to the framer
Alphabet == {CR, LF, DOT, 120}   \* 120 ('x'): a byte that is neither CR, LF nor '.'

RECURSIVE SeqsUpTo(_, _)
SeqsUpTo(S, n) ==
    IF n = 0 THEN {<<>>}
    ELSE LET shorter == SeqsUpTo(S, n - 1)
         IN  shorter \cup {Append(q, b) : q \in {r \in shorter : Len(r) = n - 1}, b \in S}

(* index of the LF of the first CR LF pair of s, 0 when there is none *)
FirstCrLf(s) ==
    IF \E i \in 2..Len(s) : s[i - 1] = CR /\ s[i] = LF
    THEN CHOOSE i \in 2..Len(s) :
            /\ s[i - 1] = CR /\ s[i] = LF
            /\ \A j \in 2..(i - 1) : ~(s[j - 1] = CR /\ s[j] = LF)
    ELSE 0

(* SMTP dot-stuffing of a payload made of CRLF-terminated lines *)
RECURSIVE DotStuff(_)
DotStuff(P) ==
    IF P = <<>> THEN <<>>
    ELSE LET n == IF FirstCrLf(P) = 0 THEN Len(P) ELSE FirstCrLf(P)
             l == Take(P, n)
         IN  (IF l[1] = DOT THEN <<DOT>> \o l ELSE l) \o DotStuff(Drop(P, n))

ContainsSeq(s, q) == \E i \in 0..(Len(s) - Len(q)) : SubSeq(s, i + 1, i + Len(q)) = q

(* a payload of CRLF-terminated lines that does not contain CRLF "." CRLF *)
IsPayload(P) ==
    /\ P = <<>> \/ EndsWith(P, CRLF)
    /\ ~ContainsSeq(P, CRLF \o TermLine)

Item(kind, name, bytes) == [kind |-> kind, name |-> name, bytes |-> bytes]

FInit ==
    /\ \E input \in SeqsUpTo(Alphabet, MaxInputLen), mode \in {"command", "data", "stuffed"} :
          /\ mode = "stuffed" => IsPayload(input)
          /\ wire = (IF mode = "stuffed" THEN DotStuff(input) \o TermLine ELSE input)
          /\ data = (mode # "command")
          /\ gP = (IF mode = "stuffed" THEN <<input>> ELSE <<>>)
    /\ fInput = wire
    /\ fOut = <<>> /\ fConsumed = 0
    /\ closed = TRUE
    /\ clientData = data /\ sentPayload = <<>> /\ gContent = <<>>
    /\ shut = FALSE /\ shutdownCalls = 0
    /\ buffer = <<>> /\ buffered_data = <<>>
    /\ current_mail = NoMail /\ pc = "framer" /\ lastYield = "none" /\ lastMail = NoMail
    /\ written = <<>> /\ framed = NoFrame
    /\ gTxn = NoTxn /\ lastCmd = "" /\ quitAnswered = FALSE
    /\ helloSeen = FALSE /\ writeFailed = FALSE
    /\ NoSink /\ NoReceiver

fixedVars == <<closed, clientData, sentPayload, gContent, shut, shutdownCalls, current_mail,
               lastYield, lastMail, written, histVars, fInput, gP, sinkVars, receiverVars>>

FRead ==
    /\ pc = "framer" /\ ~HasLine(buffer) /\ wire # <<>>
    /\ \E n \in 1..Len(wire) :
          /\ n <= ReadBufferSize
          /\ buffer' = buffer \o Take(wire, n)
          /\ wire' = Drop(wire, n)
    /\ framed' = NoFrame
    /\ UNCHANGED <<data, buffered_data, pc, fOut, fConsumed, fixedVars>>

(* read returns 0: ended, CommandIter::next returns None *)
FEof ==
    /\ pc = "framer" /\ ~HasLine(buffer) /\ wire = <<>>
    /\ pc' = "ended"
    /\ buffered_data' = <<>>
    /\ framed' = NoFrame
    /\ UNCHANGED <<wire, buffer, data, fOut, fConsumed, fixedVars>>

FDataLine ==
    /\ pc = "framer" /\ HasLine(buffer) /\ data /\ Line # TermLine
    /\ buffer' = AfterLine(buffer)
    /\ buffered_data' = buffered_data \o Unstuff(Line)
    /\ framed' = Frame("payload", Line, "", <<>>)
    /\ fConsumed' = fConsumed + Len(Line)
    /\ UNCHANGED <<wire, data, pc, fOut, fixedVars>>

FDataEnd ==
    /\ pc = "framer" /\ HasLine(buffer) /\ data /\ Line = TermLine
    /\ buffer' = AfterLine(buffer)
    /\ data' = FALSE
    /\ fOut' = Append(fOut, Item("MailInput", "", buffered_data))
    /\ buffered_data' = <<>>
    /\ framed' = Frame("term", Line, "MailInput", <<>>)
    /\ fConsumed' = fConsumed + Len(Line)
    /\ UNCHANGED <<wire, pc, fixedVars>>

FCommand ==
    /\ pc = "framer" /\ HasLine(buffer) /\ ~data
    /\ buffer' = AfterLine(buffer)
    /\ data' = (Cmd.tag = "Ok" /\ EntersDataMode(Cmd.name))
    /\ fOut' = Append(fOut, Item(Cmd.tag, Cmd.name, Line))
    /\ buffered_data' = <<>>
    /\ framed' = Frame(IF Cmd.tag = "Ok" THEN "cmd" ELSE "err", Line, Cmd.name, Cmd.arg)
    /\ fConsumed' = fConsumed + Len(Line)
    /\ UNCHANGED <<wire, pc, fixedVars>>

FNext == FRead \/ FEof \/ FDataLine \/ FDataEnd \/ FCommand

SpecFramer == FInit /\ [][FNext]_vars

(* C4: each line the framer takes ends at the first LF that directly follows *)
(* a CR in the input not consumed before: it is the shortest prefix of that  *)
(* input ending in CR LF, and at EOF no CR LF is left in the buffer.         *)
C4_ShortestLine ==
    /\ framed.kind # "none" =>
          LET before == Drop(fInput, fConsumed - Len(framed.line))
          IN  framed.line = Take(before, FirstCrLf(before))
    /\ pc = "ended" => FirstCrLf(buffer) = 0

(* C5: a payload of CRLF-terminated lines without CRLF "." CRLF, dot-stuffed *)
(* and followed by the terminator line, comes out of the framer in DATA mode *)
(* as one MailInput holding exactly the payload.                             *)
C5_StuffRoundTrip ==
    (pc = "ended" /\ gP # <<>>) => fOut = <<Item("MailInput", "", gP[1])>>

(* What CommandIter returns, call after call, when the whole stream is in    *)
(* its buffer from the start: the lines are cut one after the other with the *)
(* position closure, in DATA mode they are unstuffed and collected up to the *)
(* terminator.                                                               *)
RECURSIVE UnchunkedItems(_, _, _)
UnchunkedItems(buf, dataMode, collected) ==
    LET p == LinePosition(buf, 1, FALSE)
        line == Take(buf, p)
        rest == Drop(buf, p)
        c == from_bytes(line)
    IN  IF p = 0 THEN <<>>
        ELSE IF dataMode
             THEN IF line = TermLine
                  THEN <<Item("MailInput", "", collected)>> \o UnchunkedItems(rest, FALSE, <<>>)
                  ELSE UnchunkedItems(rest, TRUE, collected \o Unstuff(line))
             ELSE <<Item(c.tag, c.name, line)>>
                  \o UnchunkedItems(rest, c.tag = "Ok" /\ c.name = "Data", <<>>)

IsPrefix(a, b) == Len(a) <= Len(b) /\ SubSeq(b, 1, Len(a)) = a

(* C30: however the stream is split across reads, the framer returns the     *)
(* same commands, parse errors and MailInput payloads as for the unsplit     *)
(* stream; the bytes not yet taken are exactly the rest of the stream, in    *)
(* the buffer and on the wire, none lost and none twice.                     *)
C30_ChunkingIndependent ==
    /\ buffer \o wire = Drop(fInput, fConsumed)
    /\ IsPrefix(fOut, UnchunkedItems(fInput, clientData, <<>>))
    /\ pc = "ended" => fOut = UnchunkedItems(fInput, clientData, <<>>)

C30_Witness ==
    /\ pc = "framer"
    /\ clientData /\ ~data
    /\ fOut = <<Item("MailInput", "", <<>>)>>
    /\ buffer = <<CR>> /\ wire = <<LF>>

(* ========================= the parsers alone =========================== *)
(* ClientCommand::from_bytes over families of command lines, with the reply *)
(* a session without a Mail in progress gives to the result, and            *)
(* EmailAddress::from_bytes with EmailAddress::domain over byte strings.    *)

MaxSuffixLen == 3       \* bytes that follow the '>' of a MAIL line
MaxAddressLen == 5      \* length of the byte strings given to EmailAddress::from_bytes

SuffixAlphabet == {SP, GT, AT, 120, 255}
AddressAlphabet == {LT, GT, AT, 97, 255}

MailVerb == <<77, 65, 73, 76>>
HelloVerbs == {
    <<72,69,76,79>>,         \* HELO
    <<104,101,108,111>>,     \* helo
    <<72,101,76,111>>,       \* HeLo
    <<69,72,76,79>>,         \* EHLO
    <<101,104,108,111>>      \* ehlo
}
HelloArguments == { <<>>, <<SP, 120>>, <<SP, 195, 169>>, <<SP, 255>>, <<SP, 120, SP, 120>> }

IsHELO(verb) == ToAsciiUppercase(verb) = <<72,69,76,79>>

(* EmailAddress::domain: self.0.split_once("@").unwrap().1, then all of it   *)
(* but the last byte; unwrap and the slice panic when there is nothing       *)
domain(address) ==
    IF ~Contains(address, AT) THEN [ok |-> FALSE, bytes |-> <<>>]
    ELSE LET result == Drop(address, IndexOf(address, AT))
         IN  IF Len(result) = 0 THEN [ok |-> FALSE, bytes |-> <<>>]
             ELSE [ok |-> TRUE, bytes |-> Take(result, Len(result) - 1)]

CountOf(s, b) == Cardinality({i \in 1..Len(s) : s[i] = b})

(* ---- ServerCommand::into_bytes, HelloOk { domain, greet, extensions } ---- *)
(* greet is an Option: <<>> for None, <<g>> for Some(g)                      *)

Prefix250Dash == <<50, 53, 48, 45>>
Prefix250Space == <<50, 53, 48, SP>>

(* lines.iter().collect::<Vec<_>>().join(sep) *)
RECURSIVE Join(_, _)
Join(lines, sep) ==
    IF lines = <<>> THEN <<>>
    ELSE IF Len(lines) = 1 THEN lines[1]
    ELSE lines[1] \o sep \o Join(Tail(lines), sep)

(* variant: every line is prefixed "250 " *)
HelloOkPrefixAlwaysSpace(i, size) == Prefix250Space

(* if i < size-1 { "250-" } else { "250 " }, i counted from 1 here *)
HelloOkPrefix(i, size) == IF i < size THEN Prefix250Dash ELSE Prefix250Space

HelloOkIntoBytes(domain_name, greet, extensions) ==
    LET first == IF greet # <<>> THEN domain_name \o <<SP>> \o greet[1] ELSE domain_name
        lines == <<first>> \o extensions
        size == Len(lines)
    IN  Join([i \in 1..size |-> HelloOkPrefix(i, size) \o lines[i]], CRLF) \o CRLF

MaxExtensions == 2      \* length of the extensions list of a HelloOk

EncodeDomains == { <<120>>, <<120, 46, 121>> }
EncodeGreets == { <<>>, << <<>> >>, << <<103>> >>, << <<104, 105, SP, 33>> >> }
ExtensionNames == { <<56, 66, 73, 84>>, <<83, 73, 90, 69, SP, 49>> }

(* ---- raw bytes given to from_bytes, or put in the buffer of the framer ---- *)
MaxRawLen == 5
RawAlphabet == {CR, LF, 120}

(* the arm of MailReceiver::next that a parsed command or a parse error takes *)
ArmOf(cur, c) ==
    IF c.tag = "Err" THEN ParseErrorArm(cur, c.name)
    ELSE CASE c.name = "Hello" -> HelloArm(cur, c.arg)
           [] c.name = "Mail" -> MailArm(cur, c.arg)
           [] c.name = "Recipient" -> RecipientArm(cur, c.arg)
           [] c.name = "Data" -> DataArm(cur)
           [] c.name = "Quit" -> QuitArm(cur)
           [] c.name = "Reset" -> ResetArm(cur)
           [] c.name = "Noop" -> NoopArm(cur)
           [] OTHER -> NotImplementedArm(cur)

PInit ==
    /\ \/ \E address \in {AddrAB, AddrCD}, suffix \in SeqsUpTo(SuffixAlphabet, MaxSuffixLen) :
             /\ gP = <<"mail", address, suffix>>
             /\ fInput = MailVerb \o <<SP>> \o PrefixFROM \o address \o suffix \o CRLF
             /\ pc = "parse_command"
       \/ \E verb \in HelloVerbs, argument \in HelloArguments :
             /\ gP = <<"hello", verb, argument>>
             /\ fInput = verb \o argument \o CRLF
             /\ pc = "parse_command"
       \/ \E source \in SeqsUpTo(AddressAlphabet, MaxAddressLen) :
             /\ gP = <<"address">>
             /\ fInput = source
             /\ pc = "parse_address"
       \/ \E raw \in SeqsUpTo(RawAlphabet, MaxRawLen) :
             /\ gP = <<"raw">>
             /\ fInput = raw
             /\ pc \in {"parse_command", "frame_line"}
       \/ \E domain_name \in EncodeDomains, greet \in EncodeGreets,
               extensions \in SeqsUpTo(ExtensionNames, MaxExtensions) :
             /\ gP = <<"encode", domain_name, greet, extensions>>
             /\ fInput = <<>>
             /\ pc = "encode"
    /\ fOut = <<>> /\ fConsumed = 0
    /\ wire = <<>> /\ closed = FALSE
    /\ clientData = FALSE /\ sentPayload = <<>> /\ gContent = <<>>
    /\ shut = FALSE /\ shutdownCalls = 0
    /\ buffer = (IF pc = "frame_line" THEN fInput ELSE <<>>)
    /\ data = FALSE /\ buffered_data = <<>>
    /\ current_mail = NoMail /\ lastYield = "none" /\ lastMail = NoMail
    /\ written = <<>> /\ framed = NoFrame
    /\ gTxn = NoTxn /\ lastCmd = "" /\ quitAnswered = FALSE
    /\ helloSeen = FALSE /\ writeFailed = FALSE
    /\ NoSink /\ NoReceiver

parserFixedVars == <<clientVars, transportVars, data, buffered_data, lastYield, lastMail,
                     histVars, fInput, fConsumed, gP, sinkVars, receiverVars>>

(* the result of from_bytes goes to the arm of a session that holds no Mail; *)
(* a panic of from_bytes unwinds before anything is written                  *)
PParsed(c) ==
    /\ fOut' = <<Item(c.tag, c.name, c.arg)>>
    /\ IF c.tag = "Panic"
       THEN written' = <<>> /\ current_mail' = current_mail
       ELSE /\ written' = <<ArmOf(current_mail, c).reply>>
            /\ current_mail' = ArmOf(current_mail, c).mail

(* from_bytes on the bytes *)
PCommand ==
    /\ pc = "parse_command"
    /\ PParsed(from_bytes(fInput))
    /\ pc' = "parsed"
    /\ UNCHANGED <<buffer, framed, parserFixedVars>>

(* CommandIter::next in command mode on a buffer that holds the bytes: the   *)
(* line found by the position closure is drained and given to from_bytes     *)
PLine ==
    /\ pc = "frame_line" /\ HasLine(buffer)
    /\ LET c == from_bytes(BufferedLine(buffer))
       IN  /\ PParsed(c)
           /\ framed' = Frame(IF c.tag = "Ok" THEN "cmd" ELSE "err", BufferedLine(buffer),
                              c.name, c.arg)
    /\ buffer' = AfterLine(buffer)
    /\ pc' = "parsed"
    /\ UNCHANGED parserFixedVars

(* into_bytes of the HelloOk built from the parts *)
PEncode ==
    /\ pc = "encode"
    /\ fOut' = <<Item("Encoded", "HelloOk", HelloOkIntoBytes(gP[2], gP[3], gP[4]))>>
    /\ pc' = "parsed"
    /\ UNCHANGED <<written, current_mail, buffer, framed, parserFixedVars>>

(* EmailAddress::from_bytes on the bytes, then domain() on an accepted value *)
PAddress ==
    /\ pc = "parse_address"
    /\ fOut' = <<IF AddressCheck(fInput) = "Ok"
                 THEN Item("Ok", IF domain(fInput).ok THEN "domain" ELSE "panic",
                           domain(fInput).bytes)
                 ELSE Item(AddressCheck(fInput), "", <<>>)>>
    /\ pc' = "parsed"
    /\ UNCHANGED <<written, current_mail, buffer, framed, parserFixedVars>>

PNext == PCommand \/ PAddress \/ PLine \/ PEncode

SpecParser == PInit /\ [][PNext]_vars

(* C11: MAIL FROM: followed by a valid <local@domain> and then any bytes up  *)
(* to the CRLF is accepted, with exactly the bytes from '<' to the first '>' *)
(* as the address, whatever the bytes after that '>' are.                    *)
C11_TrailingParameters ==
    (pc = "parsed" /\ gP[1] = "mail") =>
        /\ fOut = <<Item("Ok", "Mail", gP[2])>>
        /\ written = <<SenderOk>>
        /\ current_mail = NewMail(gP[2])

C11_Witness ==
    /\ pc = "parsed" /\ gP[1] = "mail"
    /\ gP[3] = <<SP, 255, GT>>
    /\ fOut = <<Item("Ok", "Mail", AddrCD)>>

(* C12: HELO in any letter case is parsed like EHLO: with an argument that   *)
(* is UTF-8 it yields Hello(argument) and is answered with the 250 hello     *)
(* reply, without an argument it yields MissingDomain; it is never an        *)
(* InvalidCommand.                                                           *)
C12_HeloLikeEhlo ==
    (pc = "parsed" /\ gP[1] = "hello" /\ IsHELO(gP[2])) =>
        /\ fOut[1].name # "InvalidCommand"
        /\ gP[3] = <<>> => fOut = <<Item("Err", "MissingDomain", <<>>)>>
        /\ (gP[3] # <<>> /\ IsUtf8(Tail(gP[3]))) =>
              /\ fOut = <<Item("Ok", "Hello", Tail(gP[3]))>>
              /\ written = <<HelloOk(Tail(gP[3]))>>
        /\ (gP[3] # <<>> /\ ~IsUtf8(Tail(gP[3]))) =>
              fOut = <<Item("Err", "InvalidCharacter", <<>>)>>

(* C13: an accepted address starts with '<', ends with '>', holds exactly    *)
(* one '@', and domain() returns, without failing, the bytes strictly        *)
(* between that '@' and the final '>'.                                       *)
C13_AddressShape ==
    (pc = "parsed" /\ gP[1] = "address" /\ fOut[1].kind = "Ok") =>
        /\ fInput[1] = LT /\ fInput[Len(fInput)] = GT
        /\ CountOf(fInput, AT) = 1
        /\ fOut[1].name = "domain"
        /\ fOut[1].bytes = SubSeq(fInput, IndexOf(fInput, AT) + 1, Len(fInput) - 1)

(* the lines of a reply, each with its prefix and its CRLF, one after the other *)
RECURSIVE ReplyLines(_, _)
ReplyLines(lines, n) ==
    IF n > Len(lines) THEN <<>>
    ELSE (IF n < Len(lines) THEN Prefix250Dash ELSE Prefix250Space)
         \o lines[n] \o CRLF \o ReplyLines(lines, n + 1)

CountCrLf(s) == Cardinality({i \in 1..(Len(s) - 1) : s[i] = CR /\ s[i + 1] = LF})

(* C24: HelloOk encodes to 1 + len(extensions) lines, each ended by CRLF:    *)
(* the domain, with a space and the greet when there is one, then the        *)
(* extensions in their order; all lines but the last start with "250-", the  *)
(* last with "250 "; without greet and extensions it is "250 <domain>" CRLF. *)
C24_HelloOkLines ==
    (pc = "parsed" /\ gP[1] = "encode") =>
        LET domain_name == gP[2]
            greet == gP[3]
            extensions == gP[4]
            first == IF greet = <<>> THEN domain_name ELSE domain_name \o <<SP>> \o greet[1]
            bytes == fOut[1].bytes
        IN  /\ bytes = ReplyLines(<<first>> \o extensions, 1)
            /\ CountCrLf(bytes) = 1 + Len(extensions)
            /\ EndsWith(bytes, CRLF)
            /\ (greet = <<>> /\ extensions = <<>>) =>
                  bytes = Prefix250Space \o domain_name \o CRLF

C24_Witness ==
    /\ pc = "parsed" /\ gP[1] = "encode"
    /\ gP[3] = << <<103>> >> /\ Len(gP[4]) = 2 /\ gP[4][1] # gP[4][2]
    /\ fOut[1].bytes = Prefix250Dash \o <<120, SP, 103>> \o CRLF
                        \o Prefix250Dash \o gP[4][1] \o CRLF
                        \o Prefix250Space \o gP[4][2] \o CRLF

(* C26: every input of from_bytes that does not end in CR LF gives BadEol,   *)
(* answered 501, also an input shorter than two bytes; a line the framer     *)
(* takes holds no bare LF before its end: a line ended by a bare LF is not   *)
(* joined with the line after it, nor answered with a code other than 501.   *)
C26_BadEol ==
    (pc = "parsed" /\ gP[1] = "raw") =>
        /\ (framed = NoFrame /\ ~EndsWith(fInput, CRLF)) =>
              (fOut = <<Item("Err", "BadEol", <<>>)>> /\ written = <<SyntaxError>>)
        /\ (framed # NoFrame /\ Contains(Take(framed.line, Len(framed.line) - 2), LF)) =>
              written = <<SyntaxError>>

(* ========================== the sink task ============================== *)
(* run_sender_task: the single consumer of the channel of SenderMsg, with   *)
(* the producers that send on it.  pc is "sink_waiting" in the iteration of *)
(* the receiver, "sink_sending" inside the loop over the recipients,        *)
(* "sink_stopped" after the break, "sink_panicked" after a failed expect.   *)

MaxQueue == 3           \* messages sent on the channel in one run

(* INBOX_AGENT_ID of defaults.rs *)
InboxAgentId == <<105, 110, 98, 111, 120>>

SchemeDtn == <<100, 116, 110, 58, 47, 47>>
Slash == <<47>>

(* format!("dtn://{}/{}", recipient.domain(), INBOX_AGENT_ID) *)
DtnEid(recipient) == SchemeDtn \o domain(recipient).bytes \o Slash \o InboxAgentId

Bundle(destination, content) == [destination |-> destination, content |-> content]

SendMail(mail) == [kind |-> "SendMail", mail |-> mail]
ShutdownTask == [kind |-> "ShutdownTask", mail |-> NoMail]

SinkMails == {
    [NewMail(AddrCD) EXCEPT !.receipients = <<AddrAB, AddrCD>>, !.content = <<120, 13, 10>>],
    [NewMail(AddrCD) EXCEPT !.receipients = <<AddrAB, AddrAB>>, !.content = <<121, 13, 10>>],
    [NewMail(AddrAB) EXCEPT !.receipients = <<>>, !.content = <<120, 13, 10>>]
}

SenderMsgs == {SendMail(mail) : mail \in SinkMails} \cup {ShutdownTask}

SInit ==
    /\ NoSink /\ NoReceiver
    /\ pc = "sink_waiting"
    /\ wire = <<>> /\ closed = FALSE
    /\ clientData = FALSE /\ sentPayload = <<>> /\ gContent = <<>>
    /\ shut = FALSE /\ shutdownCalls = 0
    /\ buffer = <<>> /\ data = FALSE /\ buffered_data = <<>>
    /\ current_mail = NoMail /\ lastYield = "none" /\ lastMail = NoMail
    /\ written = <<>> /\ framed = NoFrame
    /\ gTxn = NoTxn /\ lastCmd = "" /\ quitAnswered = FALSE
    /\ helloSeen = FALSE /\ writeFailed = FALSE
    /\ fInput = <<>> /\ fOut = <<>> /\ fConsumed = 0 /\ gP = <<>>

sinkFixedVars == <<clientVars, transportVars, framerVars, current_mail, lastYield, lastMail,
                   obsVars, fInput, fOut, fConsumed, gP, receiverVars>>

(* sender.send(msg): the message is appended to the channel *)
SinkEnqueue(msg) ==
    /\ Len(queue) < MaxQueue
    /\ queue' = Append(queue, msg)
    /\ UNCHANGED <<taken, todo, payload, bundles, pc, sinkFixedVars>>

(* variant: the task goes on receiving after a ShutdownTask *)
OnShutdownTaskContinues == "sink_waiting"

(* SenderMsg::ShutdownTask => break *)
OnShutdownTask == "sink_stopped"

(* for msg in receiver: the oldest message not yet received *)
SinkReceive ==
    /\ pc = "sink_waiting" /\ taken < Len(queue)
    /\ taken' = taken + 1
    /\ LET msg == queue[taken + 1]
       IN  IF msg.kind = "ShutdownTask"
           THEN pc' = OnShutdownTask /\ UNCHANGED <<todo, payload>>
           ELSE /\ todo' = msg.mail.receipients
                /\ payload' = msg.mail.content
                /\ pc' = IF msg.mail.receipients = <<>> THEN "sink_waiting" ELSE "sink_sending"
    /\ UNCHANGED <<queue, bundles, sinkFixedVars>>

(* send_bundle(detination, &mail.content) returns Ok *)
SinkSubmit ==
    /\ pc = "sink_sending" /\ todo # <<>>
    /\ bundles' = Append(bundles, Bundle(DtnEid(Head(todo)), payload))
    /\ todo' = Tail(todo)
    /\ pc' = IF Tail(todo) = <<>> THEN "sink_waiting" ELSE "sink_sending"
    /\ UNCHANGED <<queue, taken, payload, sinkFixedVars>>

(* send_bundle returns Err: expect("Failed to send mail to node") panics *)
SinkSubmitFails ==
    /\ pc = "sink_sending" /\ todo # <<>>
    /\ pc' = "sink_panicked"
    /\ UNCHANGED <<queue, taken, todo, payload, bundles, sinkFixedVars>>

SNext ==
    \/ \E msg \in SenderMsgs : SinkEnqueue(msg)
    \/ SinkReceive
    \/ SinkSubmit
    \/ SinkSubmitFails

SpecSink == SInit /\ [][SNext]_vars

(* one bundle per entry of the list, in the order of the list *)
BundlesFor(recipients, content) ==
    [i \in 1..Len(recipients) |-> Bundle(DtnEid(recipients[i]), content)]

RECURSIVE BundlesOf(_)
BundlesOf(msgs) ==
    IF msgs = <<>> THEN <<>>
    ELSE (IF Head(msgs).kind = "SendMail"
          THEN BundlesFor(Head(msgs).mail.receipients, Head(msgs).mail.content)
          ELSE <<>>) \o BundlesOf(Tail(msgs))

(* C22: each accepted bundle goes to dtn://<domain of the recipient>/<inbox  *)
(* agent id> with the content of the mail, one per entry of the recipients;  *)
(* a submission that fails does not keep the task from serving the other     *)
(* recipients and the later messages.                                        *)
C22_IndependentSubmissions ==
    /\ bundles \o BundlesFor(todo, payload) = BundlesOf(SubSeq(queue, 1, taken))
    /\ pc # "sink_panicked"

(* C23: messages are received in the order they were sent; the task stops   *)
(* at the first ShutdownTask, with one bundle submitted for every recipient  *)
(* of every SendMail sent before it, and nothing sent after it is received   *)
(* or submitted.                                                             *)
C23_InOrderUntilShutdown ==
    /\ taken <= Len(queue)
    /\ bundles \o BundlesFor(todo, payload) = BundlesOf(SubSeq(queue, 1, taken))
    /\ \A i \in 1..taken : queue[i].kind = "ShutdownTask" =>
            (i = taken /\ pc = "sink_stopped")
    /\ pc = "sink_stopped" =>
            /\ taken >= 1 /\ queue[taken].kind = "ShutdownTask"
            /\ todo = <<>>
            /\ bundles = BundlesOf(SubSeq(queue, 1, taken - 1))

C23_Witness ==
    /\ pc = "sink_stopped"
    /\ Len(queue) = 3 /\ taken = 2
    /\ queue[1].kind = "SendMail" /\ queue[1].mail.receipients = <<AddrAB, AddrCD>>
    /\ queue[3].kind = "SendMail" /\ queue[3].mail.receipients = <<AddrAB, AddrAB>>
    /\ bundles = << Bundle(SchemeDtn \o <<98>> \o Slash \o InboxAgentId, <<120, 13, 10>>),
                    Bundle(SchemeDtn \o <<100>> \o Slash \o InboxAgentId, <<120, 13, 10>>) >>

(* ========================== the accept loop ============================ *)
(* run_smtp_server of smtp_server.rs: one connection at a time, each served  *)
(* by the Session and CommandIter of that file.  pc is "accept" in           *)
(* listener.incoming(), "serving" in the loop over the commands, "logged"    *)
(* after a failed read was logged, "shutdown" after the loop, "panicked"     *)
(* when an unwrap met an Err: the process is gone.                           *)

MaxConnections == 2     \* connections the listener hands out in one run

(* ClientCommand::from_bytes of smtp_server.rs, arm "MAIL" *)
ServerParseMail(body) ==
    IF ~HasSplit1(body) THEN PErr("MissingDomain")
    ELSE IF ~StartsWith(Split1(body), PrefixFROM) THEN PErr("SyntaxInvalid")
    ELSE LET from == Drop(Split1(body), 5)
         IN  IF ~IsUtf8(from) THEN PErr("InvalidCharacter")
             ELSE IF Contains(from, SP) THEN PErr("SyntaxInvalid")
             ELSE POk("Mail", from)

(* arm "RCPT" *)
ServerParseRcpt(body) ==
    IF ~HasSplit1(body) THEN PErr("MissingDomain")
    ELSE LET tok == Split0(Split1(body))
         IN  IF ~StartsWith(tok, PrefixTO) THEN PErr("SyntaxInvalid")
             ELSE IF IsUtf8(Drop(tok, 3)) THEN POk("Recipient", Drop(tok, 3))
             ELSE PErr("InvalidCharacter")

(* ClientCommand::from_bytes of smtp_server.rs: the end-of-line test, the    *)
(* verb and every arm but MAIL and RCPT read as in smtp.rs                   *)
server_from_bytes(bytes) ==
    IF Len(bytes) < 2 \/ ~EndsWith(bytes, CRLF) THEN from_bytes(bytes)
    ELSE LET body == Take(bytes, Len(bytes) - 2)
             command_bytes == Split0(body)
         IN  IF IsUtf8(command_bytes) /\ IsAscii(command_bytes)
                /\ ToAsciiUppercase(command_bytes) = VerbMAIL
             THEN ServerParseMail(body)
             ELSE IF IsUtf8(command_bytes) /\ IsAscii(command_bytes)
                     /\ ToAsciiUppercase(command_bytes) = VerbRCPT
             THEN ServerParseRcpt(body)
             ELSE from_bytes(bytes)

(* what a client sends on one connection before it closes it *)
ClientScripts == {
    <<>>,
    <<69,72,76,79,32,120,13,10, 81,85,73,84,13,10>>,               \* EHLO x, QUIT
    <<78,79,79,80,13,10, 81,85,73>>,                               \* NOOP, then QUI and gone
    <<70,79,79,13,10>>,                                            \* FOO
    <<69,72,76,79,13,10>>,                                         \* EHLO without domain
    <<77,65,73,76,32,70,82,79,77,58,60,97,64,98,62,13,10,
      82,67,80,84,32,84,79,58,60,97,64,98,62,13,10,
      68,65,84,65,13,10, 120,13,10, 46,13,10>>                     \* MAIL, RCPT, DATA, x, .
}

AInit ==
    /\ pc = "accept"
    /\ wire = <<>> /\ closed = FALSE
    /\ clientData = FALSE /\ sentPayload = <<>> /\ gContent = <<>>
    /\ shut = FALSE /\ shutdownCalls = 0
    /\ buffer = <<>> /\ data = FALSE /\ buffered_data = <<>>
    /\ current_mail = NoMail /\ lastYield = "none" /\ lastMail = NoMail
    /\ written = <<>> /\ framed = NoFrame
    /\ gTxn = NoTxn /\ lastCmd = "" /\ quitAnswered = FALSE
    /\ helloSeen = FALSE /\ writeFailed = FALSE
    /\ NoSink /\ NoReceiver
    /\ fInput = <<>> /\ fOut = <<>> /\ fConsumed = 0 /\ gP = <<>>

acceptFixedVars == <<clientData, sentPayload, gContent, current_mail, lastMail, histVars,
                     labVars>>

(* incoming() yields a connection: Session::new(..).unwrap() writes the      *)
(* greeting, recv_commands().unwrap() clones the stream                      *)
AAccept ==
    /\ pc = "accept" /\ shutdownCalls < MaxConnections
    /\ \E script \in ClientScripts : wire' = script
    /\ closed' = TRUE /\ shut' = FALSE
    /\ buffer' = <<>> /\ data' = FALSE /\ buffered_data' = <<>>
    /\ framed' = NoFrame /\ lastYield' = "connection"
    /\ \E outcome \in {"ok", "greeting_fails", "clone_fails"} :
          /\ written' = (IF outcome = "greeting_fails" THEN <<>> ELSE <<OpeningMessage>>)
          /\ pc' = (IF outcome = "ok" THEN "serving" ELSE "panicked")
    /\ UNCHANGED <<shutdownCalls, acceptFixedVars>>

(* incoming() yields an error: filter_map logs it and drops it *)
AAcceptError ==
    /\ pc = "accept" /\ shutdownCalls < MaxConnections
    /\ lastYield' = "accept_error"
    /\ written' = <<>> /\ framed' = NoFrame
    /\ UNCHANGED <<wire, closed, transportVars, framerVars, pc, acceptFixedVars>>

AReading == pc = "serving" /\ ~HasLine(buffer)

ARead ==
    /\ AReading /\ wire # <<>>
    /\ \E n \in 1..Len(wire) :
          /\ n <= ReadBufferSize
          /\ buffer' = buffer \o Take(wire, n)
          /\ wire' = Drop(wire, n)
    /\ written' = <<>> /\ framed' = NoFrame
    /\ UNCHANGED <<closed, transportVars, data, buffered_data, pc, lastYield, acceptFixedVars>>

(* read fails: CommandIter::next returns Some(Err(e)), the loop logs it *)
AReadError ==
    /\ AReading
    /\ buffered_data' = <<>>
    /\ pc' = "logged"
    /\ written' = <<>> /\ framed' = NoFrame
    /\ UNCHANGED <<wire, closed, transportVars, buffer, data, lastYield, acceptFixedVars>>

ALogged ==
    /\ pc = "logged"
    /\ pc' = "serving"
    /\ written' = <<>> /\ framed' = NoFrame
    /\ UNCHANGED <<wire, closed, transportVars, framerVars, lastYield, acceptFixedVars>>

(* read returns 0: CommandIter::next returns None, the loop ends *)
AReadEof ==
    /\ AReading /\ wire = <<>> /\ closed
    /\ buffered_data' = <<>>
    /\ pc' = "shutdown"
    /\ written' = <<>> /\ framed' = NoFrame
    /\ UNCHANGED <<wire, closed, transportVars, buffer, data, lastYield, acceptFixedVars>>

AFraming == pc = "serving" /\ HasLine(buffer)

(* session.send_command(reply).unwrap(), then the loop goes on or breaks *)
ASend(reply, then) ==
    \E ok \in BOOLEAN :
        /\ written' = (IF ok THEN <<reply>> ELSE <<>>)
        /\ pc' = (IF ok THEN then ELSE "panicked")

ADataLine ==
    /\ AFraming /\ data /\ Line # TermLine
    /\ buffer' = AfterLine(buffer)
    /\ buffered_data' = buffered_data \o Unstuff(Line)
    /\ framed' = Frame("payload", Line, "", <<>>)
    /\ written' = <<>>
    /\ UNCHANGED <<wire, closed, transportVars, data, pc, lastYield, acceptFixedVars>>

ADataEnd ==
    /\ AFraming /\ data /\ Line = TermLine
    /\ buffer' = AfterLine(buffer)
    /\ data' = FALSE /\ buffered_data' = <<>>
    /\ framed' = Frame("term", Line, "MailInput", buffered_data)
    /\ ASend(MailOk, "serving")
    /\ UNCHANGED <<wire, closed, transportVars, lastYield, acceptFixedVars>>

ServerCmd == server_from_bytes(Line)

(* ClientCommand::from_bytes(&buffered_line).unwrap() on a line that does    *)
(* not parse                                                                 *)
ACommandUnparsable ==
    /\ AFraming /\ ~data /\ ServerCmd.tag # "Ok"
    /\ buffer' = AfterLine(buffer)
    /\ framed' = Frame("err", Line, ServerCmd.name, ServerCmd.arg)
    /\ written' = <<>>
    /\ pc' = "panicked"
    /\ UNCHANGED <<wire, closed, transportVars, data, buffered_data, lastYield, acceptFixedVars>>

AReplyTo(c) ==
    CASE c.name = "Hello" -> HelloOk(c.arg)
      [] c.name = "Mail" -> SenderOk
      [] c.name = "Recipient" -> RecipientOk
      [] c.name = "Data" -> StartMailInput
      [] c.name = "Quit" -> ClosingConnection

(* Hello, Mail, Recipient, Data, Quit: the reply is sent; Quit breaks *)
ACommandAnswered ==
    /\ AFraming /\ ~data /\ ServerCmd.tag = "Ok"
    /\ ServerCmd.name \in {"Hello", "Mail", "Recipient", "Data", "Quit"}
    /\ buffer' = AfterLine(buffer)
    /\ data' = (ServerCmd.name = "Data")
    /\ buffered_data' = <<>>
    /\ framed' = Frame("cmd", Line, ServerCmd.name, ServerCmd.arg)
    /\ ASend(AReplyTo(ServerCmd), IF ServerCmd.name = "Quit" THEN "shutdown" ELSE "serving")
    /\ UNCHANGED <<wire, closed, transportVars, lastYield, acceptFixedVars>>

(* _ => {} : any other command gets no reply *)
ACommandIgnored ==
    /\ AFraming /\ ~data /\ ServerCmd.tag = "Ok"
    /\ ServerCmd.name \notin {"Hello", "Mail", "Recipient", "Data", "Quit"}
    /\ buffer' = AfterLine(buffer)
    /\ buffered_data' = <<>>
    /\ framed' = Frame("cmd", Line, ServerCmd.name, ServerCmd.arg)
    /\ written' = <<>>
    /\ UNCHANGED <<wire, closed, transportVars, data, pc, lastYield, acceptFixedVars>>

(* session.shutdown().unwrap() *)
AShutdown ==
    /\ pc = "shutdown"
    /\ shutdownCalls' = shutdownCalls + 1
    /\ \E ok \in BOOLEAN :
          /\ shut' = ok
          /\ pc' = (IF ok THEN "accept" ELSE "panicked")
    /\ written' = <<>> /\ framed' = NoFrame
    /\ UNCHANGED <<wire, closed, framerVars, lastYield, acceptFixedVars>>

ANext ==
    \/ AAccept
    \/ AAcceptError
    \/ ARead
    \/ AReadError
    \/ ALogged
    \/ AReadEof
    \/ ADataLine
    \/ ADataEnd
    \/ ACommandUnparsable
    \/ ACommandAnswered
    \/ ACommandIgnored
    \/ AShutdown

SpecAccept == AInit /\ [][ANext]_vars

(* C21: whatever happens on one connection (a line that does not parse, an   *)
(* unknown command, a client that disconnects, a failing greeting, reply or  *)
(* shutdown), the accept loop is not ended by it and goes on to the next     *)
(* connection.                                                               *)
C21_LoopSurvives == pc # "panicked"

(* ========================== the receiver =============================== *)
(* main_receiver.rs: dtn_receiver_task takes bundles from the DTN agent and  *)
(* passes those it keeps on the unbounded channel (queue); lmtp_sender_task  *)
(* receives from the channel (taken) and sends over LMTP.  pc is the         *)
(* position of lmtp_sender_task: "lmtp_waiting" in recv().await,             *)
(* "lmtp_sending" with the message queue[taken] in hand.  lastYield is how   *)
(* the latest iteration of dtn_receiver_task ended.                          *)

MaxBundles == 3         \* bundles the DTN agent delivers in one run

(* inbox_agent.node_eid *)
NodeEid == <<100, 116, 110, 58, 47, 47, 110, 47>>      \* dtn://n/

(* node_eid[6..node_eid.len()-1] *)
recipient_domain == SubSeq(NodeEid, 7, Len(NodeEid) - 1)

(* A bundle with what MessageParser::parse makes of it: whether it parses,   *)
(* the entries of its From and of its To header, each entry holding its      *)
(* address as an Option (<<>> for None, <<a>> for Some(a)).                  *)
BundleOf(raw, parses, from, to) == [raw |-> raw, parses |-> parses, from |-> from, to |-> to]

AddrXY == <<120, 64, 121>>          \* x@y
AddrAN == <<97, 64, 110>>           \* a@n
AddrCN == <<99, 64, 110>>           \* c@n
AddrBM == <<98, 64, 109>>           \* b@m
AddrABN == <<97, 64, 98, 64, 110>>  \* a@b@n

ReceivedBundles == {
    BundleOf(<<1>>, FALSE, <<>>, <<>>),
    BundleOf(<<2>>, TRUE, <<>>, << <<AddrAN>> >>),
    BundleOf(<<3>>, TRUE, << <<>>, <<AddrXY>> >>, << <<AddrAN>> >>),
    BundleOf(<<4>>, TRUE, << <<AddrXY>> >>, <<>>),
    BundleOf(<<5>>, TRUE, << <<AddrXY>> >>,
             << <<AddrAN>>, <<>>, <<AddrBM>>, << <<110>> >>, <<AddrAN>>, <<AddrCN>> >>),
    BundleOf(<<6>>, TRUE, << <<AddrXY>> >>, << <<AddrBM>> >>),
    BundleOf(<<7>>, TRUE, << <<AddrAN>>, <<AddrXY>> >>, << <<AddrABN>>, <<AddrCN>> >>)
}

(* message.from().and_then(first).and_then(address): an Option *)
FirstFrom(bundle) == IF bundle.from = <<>> THEN <<>> ELSE bundle.from[1]

(* variant: every To address is kept, whatever its domain *)
KeepsRecipientAnyDomain(domain_name) == TRUE

(* if domain == recipient_domain *)
KeepsRecipient(domain_name) == domain_name = recipient_domain

(* the loop over message.to(): entries without address or without '@' are    *)
(* passed over, addr.split_once("@") gives (username, domain)                *)
RECURSIVE recipient_users(_)
recipient_users(to) ==
    IF to = <<>> THEN <<>>
    ELSE LET entry == Head(to)
             addr == entry[1]
         IN  IF entry = <<>> \/ ~Contains(addr, AT) THEN recipient_users(Tail(to))
             ELSE IF KeepsRecipient(Drop(addr, IndexOf(addr, AT)))
                  THEN <<Take(addr, IndexOf(addr, AT) - 1)>> \o recipient_users(Tail(to))
                  ELSE recipient_users(Tail(to))

ReceivedMessage(bundle) ==
    [raw_message |-> bundle.raw, recipient_users |-> recipient_users(bundle.to),
     from |-> FirstFrom(bundle)[1]]

LmtpSend(message, ok) ==
    [body |-> message.raw_message, from |-> message.from, to |-> message.recipient_users,
     ok |-> ok]

RInit ==
    /\ NoSink /\ NoReceiver
    /\ pc = "lmtp_waiting"
    /\ wire = <<>> /\ closed = FALSE
    /\ clientData = FALSE /\ sentPayload = <<>> /\ gContent = <<>>
    /\ shut = FALSE /\ shutdownCalls = 0
    /\ buffer = <<>> /\ data = FALSE /\ buffered_data = <<>>
    /\ current_mail = NoMail /\ lastYield = "none" /\ lastMail = NoMail
    /\ written = <<>> /\ framed = NoFrame
    /\ gTxn = NoTxn /\ lastCmd = "" /\ quitAnswered = FALSE
    /\ helloSeen = FALSE /\ writeFailed = FALSE
    /\ fInput = <<>> /\ fOut = <<>> /\ fConsumed = 0 /\ gP = <<>>

receiverFixedVars == <<clientVars, transportVars, framerVars, current_mail, lastMail,
                       obsVars, fInput, fOut, fConsumed, gP, todo, payload, bundles>>

(* recv_bundle fails: logged, next iteration *)
RRecvError ==
    /\ Len(received) < MaxBundles
    /\ lastYield' = "recv_error"
    /\ UNCHANGED <<received, queue, taken, sends, pc, receiverFixedVars>>

(* one iteration of dtn_receiver_task on a bundle: given up when the bundle  *)
(* does not parse or has no From address, passed on the channel otherwise,   *)
(* also with an empty list of recipients                                     *)
RReceive(bundle) ==
    /\ Len(received) < MaxBundles
    /\ received' = Append(received, bundle)
    /\ IF ~bundle.parses
       THEN lastYield' = "invalid" /\ queue' = queue
       ELSE IF FirstFrom(bundle) = <<>>
       THEN lastYield' = "no_from" /\ queue' = queue
       ELSE lastYield' = "sent_on" /\ queue' = Append(queue, ReceivedMessage(bundle))
    /\ UNCHANGED <<taken, sends, pc, receiverFixedVars>>

(* inproc_receiver.recv().await returns the oldest message *)
LmtpRecv ==
    /\ pc = "lmtp_waiting" /\ taken < Len(queue)
    /\ taken' = taken + 1
    /\ pc' = "lmtp_sending"
    /\ UNCHANGED <<received, queue, sends, lastYield, receiverFixedVars>>

(* recipient_users.is_empty(): warn and continue *)
LmtpSkip ==
    /\ pc = "lmtp_sending" /\ queue[taken].recipient_users = <<>>
    /\ pc' = "lmtp_waiting"
    /\ UNCHANGED <<received, queue, taken, sends, lastYield, receiverFixedVars>>

(* sender.send(message).await: Ok or Err, logged either way *)
LmtpDeliver ==
    /\ pc = "lmtp_sending" /\ queue[taken].recipient_users # <<>>
    /\ \E ok \in BOOLEAN : sends' = Append(sends, LmtpSend(queue[taken], ok))
    /\ pc' = "lmtp_waiting"
    /\ UNCHANGED <<received, queue, taken, lastYield, receiverFixedVars>>

RNext ==
    \/ RRecvError
    \/ \E bundle \in ReceivedBundles : RReceive(bundle)
    \/ LmtpRecv
    \/ LmtpSkip
    \/ LmtpDeliver

SpecReceiver == RInit /\ [][RNext]_vars

(* the domain of the local node dtn://n/ *)
LocalNodeDomain == <<110>>

(* the To entries that have an address with an '@' followed by the domain of *)
(* the local node, by their position in the header                          *)
LocalEntries(bundle) ==
    {i \in 1..Len(bundle.to) :
        /\ bundle.to[i] # <<>>
        /\ Contains(bundle.to[i][1], AT)
        /\ Drop(bundle.to[i][1], IndexOf(bundle.to[i][1], AT)) = LocalNodeDomain}

(* the i-th smallest element of a set of numbers *)
RECURSIVE NthOf(_, _)
NthOf(S, i) ==
    LET least == CHOOSE x \in S : \A y \in S : x <= y
    IN  IF i = 1 THEN least ELSE NthOf(S \ {least}, i - 1)

LocalParts(bundle) ==
    [k \in 1..Cardinality(LocalEntries(bundle)) |->
        LET a == bundle.to[NthOf(LocalEntries(bundle), k)][1]
        IN  Take(a, IndexOf(a, AT) - 1)]

Deliverable(bundle) ==
    /\ bundle.parses
    /\ bundle.from # <<>> /\ bundle.from[1] # <<>>
    /\ LocalEntries(bundle) # {}

(* the sends due for a sequence of bundles, without their outcome *)
RECURSIVE SendsDue(_)
SendsDue(bs) ==
    IF bs = <<>> THEN <<>>
    ELSE (IF Deliverable(Head(bs))
          THEN << [body |-> Head(bs).raw, from |-> Head(bs).from[1][1],
                   to |-> LocalParts(Head(bs))] >>
          ELSE <<>>) \o SendsDue(Tail(bs))

SendsMade == [i \in 1..Len(sends) |->
                 [body |-> sends[i].body, from |-> sends[i].from, to |-> sends[i].to]]

(* every message passed on the channel has been received and dealt with *)
ReceiverIdle == pc = "lmtp_waiting" /\ taken = Len(queue)

(* C31: the LMTP sends made are, in the order of arrival, one for each       *)
(* bundle that parses, has a From address and has a To address in the local  *)
(* domain, with the bytes of the bundle as body and the local parts of those *)
(* To addresses in header order as recipients, and none for any other        *)
(* bundle; a bundle given up and a send that failed are followed by the      *)
(* sends of the later bundles.                                               *)
C31_OneSendPerLocalBundle ==
    /\ IsPrefix(SendsMade, SendsDue(received))
    /\ ReceiverIdle => SendsMade = SendsDue(received)
    /\ pc \in {"lmtp_waiting", "lmtp_sending"}
    /\ taken <= Len(queue) /\ Len(queue) <= Len(received)

C31_Witness ==
    /\ ReceiverIdle
    /\ Len(received) = 3
    /\ received[1].raw = <<5>> /\ received[2].raw = <<1>> /\ received[3].raw = <<7>>
    /\ sends = << [body |-> <<5>>, from |-> AddrXY, to |-> << <<97>>, <<97>>, <<99>> >>,
                   ok |-> FALSE],
                  [body |-> <<7>>, from |-> AddrAN, to |-> << <<99>> >>, ok |-> TRUE] >>

====
